---- MODULE Spec2Model ----
(***************************************************************************)
(* Model of pairing.py, the pairing script of the FIDE binance tournament: *)
(* the sqlite table `rounds` (class Db), the ingestion of a round sheet    *)
(* (class FileHandler), the creation of one lichess game per unpaired row  *)
(* and the result check (class Pairing), and the commands of main().       *)
(***************************************************************************)
EXTENDS Integers, Sequences, FiniteSets, TLC

\* ------------------------------------------------------------------------
\* Bounds of the model
\* ------------------------------------------------------------------------
MaxRecords == 2     \* rows the table `rounds` may hold
MaxLines   == 2     \* lines of one round sheet
MaxGames   == 4     \* games the remote service may create
MaxLedgerRows == 2  \* rows of the table when Db is driven method by method

\* SQL NULL / Python None; outside the range of both nullable columns
NULL == -1

Rounds == {1, 2}
Results == 0 .. 3   \* 0 = black wins, 1 = white wins, 2 = draw, 3 = unknown
GameIds == 1 .. MaxGames
RemoteStatus == {"started", "white", "draw"}

\* ------------------------------------------------------------------------
\* Constants of the script
\* ------------------------------------------------------------------------
total == 5
status_forcelist == {429, 500, 502, 503, 504}
method_whitelist == {"GET"}

\* The lines a round sheet is made of, after PLAYER_REGEX: a line either
\* does not match, or yields (table_number, player_1, player_2).
SheetLines ==
    { [match |-> TRUE,  table_number |-> 1, player_1 |-> "alice", player_2 |-> "bob"],
      [match |-> TRUE,  table_number |-> 2, player_1 |-> "bob",   player_2 |-> "alice"],
      [match |-> FALSE, table_number |-> 0, player_1 |-> "",      player_2 |-> ""] }

Sheets == UNION { [1 .. n -> SheetLines] : n \in 1 .. MaxLines }

\* PLAYER_REGEX takes any two words for the players: also the same word twice
SelfLines ==
    { [match |-> TRUE, table_number |-> 1, player_1 |-> "alice", player_2 |-> "bob"],
      [match |-> TRUE, table_number |-> 2, player_1 |-> "alice", player_2 |-> "alice"],
      [match |-> TRUE, table_number |-> 4, player_1 |-> "alice", player_2 |-> "bob"] }

SelfSheets == UNION { [1 .. n -> SelfLines] : n \in 1 .. MaxLines }

\* HTTP status codes the challenge endpoint answers with
HttpStatus == {200, 400, 429}

\* What the challenge endpoint answers to one create_game: the status of its
\* reply to the request and to each re-issue of it (the last one from then on)
PostReplies ==
    { <<st>> : st \in HttpStatus } \cup { <<st, 200>> : st \in HttpStatus \cap status_forcelist }

\* What the lookup endpoint answers: a list of games, each with its id and
\* its status; `known` are the ids the service is asked about
Replies(known) ==
    {<< >>} \cup { <<[id |-> g, status |-> st]>> : g \in known, st \in RemoteStatus }

\* ------------------------------------------------------------------------
\* dataclass Pair
\* ------------------------------------------------------------------------
Pair(white, black) == [white_player |-> white, black_player |-> black]

\* ------------------------------------------------------------------------
\* class Db: the table `rounds` is a sequence of rows, rowId = index
\* ------------------------------------------------------------------------
create_db == << >>

add_players(tbl, pair, round_nb) ==
    Append(tbl, [white_player    |-> pair.white_player,
                 black_player    |-> pair.black_player,
                 lichess_game_id |-> NULL,
                 result          |-> NULL,
                 round_nb        |-> round_nb])

RowIdSeq(tbl) == [i \in 1 .. Len(tbl) |-> i]

\* the query without its condition on round_nb
get_unpaired_players_allrounds(tbl, round_nb) ==
    LET sel == SelectSeq(RowIdSeq(tbl),
                         LAMBDA i : tbl[i].lichess_game_id = NULL)
    IN  [k \in 1 .. Len(sel) |->
            <<sel[k], Pair(tbl[sel[k]].white_player, tbl[sel[k]].black_player)>>]

\* the query without its condition lichess_game_id IS NULL
get_unpaired_players_nonull(tbl, round_nb) ==
    LET sel == SelectSeq(RowIdSeq(tbl),
                         LAMBDA i : tbl[i].round_nb = round_nb)
    IN  [k \in 1 .. Len(sel) |->
            <<sel[k], Pair(tbl[sel[k]].white_player, tbl[sel[k]].black_player)>>]

get_unpaired_players(tbl, round_nb) ==
    LET sel == SelectSeq(RowIdSeq(tbl),
                         LAMBDA i : /\ tbl[i].lichess_game_id = NULL
                                    /\ tbl[i].round_nb = round_nb)
    IN  [k \in 1 .. Len(sel) |->
            <<sel[k], Pair(tbl[sel[k]].white_player, tbl[sel[k]].black_player)>>]

\* an UPDATE without its WHERE clause
add_lichess_game_id_nowhere(tbl, row_id, game_id) ==
    [i \in DOMAIN tbl |-> [tbl[i] EXCEPT !.lichess_game_id = game_id]]

\* an UPDATE that matches no row
add_lichess_game_id_lost(tbl, row_id, game_id) == tbl

add_lichess_game_id(tbl, row_id, game_id) ==
    IF row_id \in DOMAIN tbl
    THEN [tbl EXCEPT ![row_id].lichess_game_id = game_id]
    ELSE tbl

\* The statement has a comma before FROM: sqlite3 refuses it for every
\* table and every round, so the method raises and returns nothing.
get_unfinished_games(tbl, round_nb) ==
    [err |-> "OperationalError", val |-> << >>]

\* Python values, as far as str.join tells them apart
PyStr(s)   == [type |-> "str",   v |-> s]
PyTuple(t) == [type |-> "tuple", v |-> t]

str_join(sep, items) ==
    IF \E i \in DOMAIN items : items[i].type # "str"
    THEN [err |-> "TypeError", val |-> << >>]
    ELSE [err |-> "none", val |-> [i \in DOMAIN items |-> items[i].v]]

get_game_ids(tbl, round_nb) ==
    LET sel == SelectSeq(RowIdSeq(tbl),
                         LAMBDA i : /\ tbl[i].lichess_game_id # NULL
                                    /\ tbl[i].round_nb = round_nb)
        raw_data == [k \in 1 .. Len(sel) |->
                        PyTuple(<<tbl[sel[k]].lichess_game_id>>)]
    IN  str_join(" ", raw_data)

add_game_result(tbl, row_id, result) ==
    IF row_id \in DOMAIN tbl
    THEN [tbl EXCEPT ![row_id].result = result]
    ELSE tbl

\* Db.__init__ opens the connection with isolation_level=None: every
\* statement is committed when it is executed, and the table a command
\* leaves behind, also when it ends on an exception or is killed, is the
\* table as its statements made it (`started` is the table it started with).
autocommit_rollback(started, now) == started

autocommit(started, now) == now

\* ------------------------------------------------------------------------
\* class FileHandler
\* ------------------------------------------------------------------------
RECURSIVE get_pairing(_)
get_pairing(sheet) ==
    IF sheet = << >> THEN << >>
    ELSE LET line == Head(sheet)
             pair == IF line.table_number % 2 = 1
                     THEN Pair(line.player_1, line.player_2)
                     ELSE Pair(line.player_2, line.player_1)
         IN  IF ~line.match
             THEN get_pairing(Tail(sheet))
             ELSE <<pair>> \o get_pairing(Tail(sheet))

RECURSIVE fetch(_, _, _)
fetch(tbl, pairs, round_nb) ==
    IF pairs = << >> THEN tbl
    ELSE fetch(add_players(tbl, Head(pairs), round_nb), Tail(pairs), round_nb)

\* ------------------------------------------------------------------------
\* class Pairing
\* ------------------------------------------------------------------------
\* urllib3 re-issues a request on a status of the forcelist only for the
\* methods of the whitelist.
is_retry(method, status_code) ==
    method \in method_whitelist /\ status_code \in status_forcelist

\* The adapter sends the request and, while the reply is one to retry and
\* retries are left, sends it again; with no retry left it raises.
RECURSIVE urlopen(_, _, _, _)
urlopen(method, replies, attempt, retries) ==
    LET status_code == replies[IF attempt <= Len(replies) THEN attempt
                                                        ELSE Len(replies)]
    IN  IF is_retry(method, status_code)
        THEN IF retries = 0
             THEN [err |-> "RetryError", status |-> status_code, requests |-> attempt]
             ELSE urlopen(method, replies, attempt + 1, retries - 1)
        ELSE [err |-> "none", status |-> status_code, requests |-> attempt]

\* create_game: the reply to the POST is read as JSON and rep["game"]["id"]
\* is returned; only a 200 reply carries a "game" entry.
create_game(replies) ==
    LET r == urlopen("POST", replies, 1, total)
    IN  IF r.err = "none" /\ r.status # 200
        THEN [r EXCEPT !.err = "KeyError"]
        ELSE r

\* the ids of the games of the round, which the remote service knows about
Started(tbl, round_nb) ==
    LET rows == { j \in DOMAIN tbl : /\ tbl[j].round_nb = round_nb
                                     /\ tbl[j].lichess_game_id # NULL }
    IN  { tbl[j].lichess_game_id : j \in rows }

\* The values of the column `result`, for the statuses that end a game
Conclusive(status) == status \in {"white", "black", "draw"}

ResultOf(status) ==
    CASE status = "black" -> 0
      [] status = "white" -> 1
      [] status = "draw"  -> 2
      [] OTHER            -> 3

\* a check that stores the result of every game of the reply, whether or not
\* the row already has one
RECURSIVE store_results(_, _, _)
store_results(tbl, round_nb, rep) ==
    IF rep = << >> THEN [tbl |-> tbl, writes |-> 0]
    ELSE LET game == Head(rep)
             rows == { j \in DOMAIN tbl : /\ tbl[j].round_nb = round_nb
                                          /\ tbl[j].lichess_game_id = game.id }
             tbl1 == IF rows # {} /\ Conclusive(game.status)
                     THEN add_game_result(tbl, CHOOSE j \in rows : TRUE,
                                          ResultOf(game.status))
                     ELSE tbl
             rest == store_results(tbl1, round_nb, Tail(rep))
         IN  [tbl |-> rest.tbl,
              writes |-> rest.writes
                         + (IF rows # {} /\ Conclusive(game.status) THEN 1 ELSE 0)]

\* a check that marks every row of the round without a result as unknown,
\* whether or not the row has a game
check_all_results_unknown(tbl, round_nb, rep) ==
    LET rows == { j \in DOMAIN tbl : /\ tbl[j].round_nb = round_nb
                                     /\ tbl[j].result = NULL }
    IN  [err |-> "none",
         tbl |-> [j \in DOMAIN tbl |->
                    IF j \in rows THEN [tbl[j] EXCEPT !.result = 3] ELSE tbl[j]],
         requests |-> 1, writes |-> Cardinality(rows)]

check_all_results_rewrite(tbl, round_nb, rep) ==
    LET r == store_results(tbl, round_nb, rep)
    IN  [err |-> "none", tbl |-> r.tbl, requests |-> 1, writes |-> r.writes]

\* check_all_results: the query of the unfinished games raises before the
\* lookup request is sent; the loop over the reply `rep` only logs.
check_all_results(tbl, round_nb, rep) ==
    LET games_dic == get_unfinished_games(tbl, round_nb)
    IN  IF games_dic.err # "none"
        THEN [err |-> games_dic.err, tbl |-> tbl, requests |-> 0, writes |-> 0]
        ELSE [err |-> "none",        tbl |-> tbl, requests |-> 1, writes |-> 0]

\* ------------------------------------------------------------------------
\* State
\* ------------------------------------------------------------------------
VARIABLES
    rounds,     \* the table `rounds`
    games,      \* the games the remote service created; the id of a game is its
                \* index, row_id the row it was created for (0: for none)
    pc,         \* position of the script: "idle", "create" or "write"
    cur,        \* locals of the running pair_all_players
    orphans,    \* ids of games created remotely and lost before the UPDATE
    ret         \* outcome of the last command that returned; while
                \* pair_all_players runs, the command and err "running"

vars == <<rounds, games, pc, cur, orphans, ret>>

NoCur == [round_nb |-> 0, snap |-> << >>, todo |-> << >>, game_id |-> NULL,
          tried |-> {}, before |-> << >>, requests |-> 0]

\* op, round_nb: the command and its argument; err: the exception it raised;
\* val: what it returned (for check_all_results: the reply the remote service
\* had for it); snap, tried, failed: the rows pair_all_players read, the rows
\* it called create_game for, the row it stopped at; writes: UPDATEs it
\* made; before: the table when it started; again: the command before it was
\* the same command with the same argument and the same remote reply;
\* requests, status: the requests its last outbound call sent and the status
\* of the last reply to them.
Ret(op, round_nb, err) ==
    [op |-> op, round_nb |-> round_nb, err |-> err, val |-> << >>,
     snap |-> {}, tried |-> {}, failed |-> 0, writes |-> 0,
     before |-> << >>, again |-> FALSE, requests |-> 0, status |-> 0]

Init ==
    /\ rounds = create_db
    /\ games = << >>
    /\ pc = "idle"
    /\ cur = NoCur
    /\ orphans = {}
    /\ ret = Ret("create_db", 0, "none")

RowsOf(snap) == { snap[k][1] : k \in DOMAIN snap }

\* command `fetch`
Fetch(round_nb, sheet) ==
    /\ pc = "idle"
    /\ Len(rounds) + Len(get_pairing(sheet)) <= MaxRecords
    /\ rounds' = fetch(rounds, get_pairing(sheet), round_nb)
    /\ ret' = Ret("fetch", round_nb, "none")
    /\ UNCHANGED <<games, pc, cur, orphans>>

\* command `pair`: pair_all_players reads the unpaired rows of the round
PairStart(round_nb) ==
    /\ pc = "idle"
    /\ LET snap == get_unpaired_players(rounds, round_nb)
       IN  IF snap = << >>
           THEN /\ ret' = [Ret("pair", round_nb, "none") EXCEPT !.before = rounds]
                /\ UNCHANGED <<pc, cur>>
           ELSE /\ pc' = "create"
                /\ cur' = [round_nb |-> round_nb, snap |-> snap, todo |-> snap,
                           game_id |-> NULL, tried |-> {}, before |-> rounds,
                           requests |-> 0]
                /\ ret' = Ret("pair", round_nb, "running")
    /\ UNCHANGED <<rounds, games, orphans>>

\* the games of the command `test`
TestGames == { g \in DOMAIN games : games[g].row_id = 0 }

\* create_game for the head of the rows left: the POST and the replies to it
CreateGame(replies) ==
    /\ pc = "create"
    /\ LET row_id == Head(cur.todo)[1]
           pair   == Head(cur.todo)[2]
           r      == create_game(replies)
       IN  IF r.err = "none"
           THEN /\ Len(games) < MaxGames
                /\ games' = Append(games, [white  |-> pair.white_player,
                                           black  |-> pair.black_player,
                                           row_id |-> row_id])
                /\ cur' = [cur EXCEPT !.game_id = Len(games) + 1,
                                      !.tried = @ \cup {row_id},
                                      !.requests = r.requests]
                /\ pc' = "write"
                /\ UNCHANGED <<rounds, ret>>
           ELSE /\ pc' = "idle"
                /\ cur' = NoCur
                /\ rounds' = autocommit(cur.before, rounds)
                /\ ret' = [Ret("pair", cur.round_nb, r.err)
                             EXCEPT !.snap = RowsOf(cur.snap),
                                    !.tried = cur.tried \cup {row_id},
                                    !.failed = row_id,
                                    !.writes = Cardinality(cur.tried),
                                    !.before = cur.before,
                                    !.requests = r.requests,
                                    !.status = r.status]
                /\ UNCHANGED games
    /\ UNCHANGED orphans

\* add_lichess_game_id for the game just created, then the next row
WriteGameId ==
    /\ pc = "write"
    /\ rounds' = add_lichess_game_id(rounds, Head(cur.todo)[1], cur.game_id)
    /\ IF Tail(cur.todo) = << >>
       THEN /\ pc' = "idle"
            /\ cur' = NoCur
            /\ ret' = [Ret("pair", cur.round_nb, "none")
                         EXCEPT !.snap = RowsOf(cur.snap),
                                !.tried = cur.tried,
                                !.writes = Cardinality(cur.tried),
                                !.before = cur.before,
                                !.requests = cur.requests,
                                !.status = 200]
       ELSE /\ pc' = "create"
            /\ cur' = [cur EXCEPT !.todo = Tail(@), !.game_id = NULL]
            /\ UNCHANGED ret
    /\ UNCHANGED <<games, orphans>>

\* the process is killed while pair_all_players runs; killed between the
\* creation of a game and the UPDATE, it loses the id of the game
Kill ==
    /\ pc \in {"create", "write"}
    /\ orphans' = IF pc = "write" THEN orphans \cup {cur.game_id} ELSE orphans
    /\ pc' = "idle"
    /\ cur' = NoCur
    /\ rounds' = autocommit(cur.before, rounds)
    /\ ret' = [Ret("pair", cur.round_nb, "killed")
                 EXCEPT !.snap = RowsOf(cur.snap), !.tried = cur.tried,
                        !.failed = IF pc = "write" THEN Head(cur.todo)[1] ELSE 0,
                        !.writes = Cardinality(cur.tried \ {IF pc = "write"
                                                             THEN Head(cur.todo)[1]
                                                             ELSE 0}),
                        !.before = cur.before]
    /\ UNCHANGED games

\* command `test`: create_game for the pair (test, test2), outside any run of
\* pair_all_players; the id of the game is dropped and no row is read or written
Test(replies) ==
    /\ pc = "idle"
    /\ LET pair == Pair("test", "test2")
           r    == create_game(replies)
       IN  /\ IF r.err = "none"
              THEN /\ Len(games) < MaxGames
                   /\ games' = Append(games, [white  |-> pair.white_player,
                                              black  |-> pair.black_player,
                                              row_id |-> 0])
              ELSE UNCHANGED games
           /\ ret' = [Ret("test", 0, r.err) EXCEPT !.requests = r.requests,
                                                   !.status = r.status]
    /\ UNCHANGED <<rounds, pc, cur, orphans>>

\* Pairing.check_all_results, with the reply the remote service has for it
CheckAllResults(round_nb, rep) ==
    /\ pc = "idle"
    /\ LET r == check_all_results(rounds, round_nb, rep)
       IN  /\ rounds' = r.tbl
           /\ ret' = [Ret("check_all_results", round_nb, r.err)
                        EXCEPT !.val = rep,
                               !.writes = r.writes,
                               !.requests = r.requests,
                               !.before = rounds,
                               !.again = /\ ret.op = "check_all_results"
                                         /\ ret.round_nb = round_nb
                                         /\ ret.val = rep]
    /\ UNCHANGED <<games, pc, cur, orphans>>

\* command `result`: the function body is `pass`
Result(round_nb) ==
    /\ pc = "idle"
    /\ ret' = Ret("result", round_nb, "none")
    /\ UNCHANGED <<rounds, games, pc, cur, orphans>>

\* command `broadcast`
Broadcast(round_nb) ==
    /\ pc = "idle"
    /\ LET r == get_game_ids(rounds, round_nb)
       IN  ret' = [Ret("broadcast", round_nb, r.err) EXCEPT !.val = r.val]
    /\ UNCHANGED <<rounds, games, pc, cur, orphans>>

Next ==
    \/ \E round_nb \in Rounds, sheet \in Sheets : Fetch(round_nb, sheet)
    \/ \E round_nb \in Rounds : PairStart(round_nb)
    \/ \E replies \in PostReplies : CreateGame(replies)
    \/ WriteGameId
    \/ Kill
    \/ \E round_nb \in Rounds :
          \E rep \in Replies(Started(rounds, round_nb)) : CheckAllResults(round_nb, rep)
    \/ \E round_nb \in Rounds : Result(round_nb)
    \/ \E round_nb \in Rounds : Broadcast(round_nb)
    \/ \E replies \in PostReplies : Test(replies)

Spec == Init /\ [][Next]_vars

\* ------------------------------------------------------------------------
\* The commands that create the games of a round, run again and again
\* against a remote service that accepts each pair in the end
\* ------------------------------------------------------------------------
NextPair ==
    \/ \E round_nb \in Rounds, sheet \in Sheets : Fetch(round_nb, sheet)
    \/ \E round_nb \in Rounds : PairStart(round_nb)
    \/ \E replies \in PostReplies : CreateGame(replies)
    \/ WriteGameId
    \/ Kill

\* pair_all_players calls add_lichess_game_id right after create_game has
\* returned; how often the command is run, what the remote service answers
\* and whether the process is killed are not up to the script
LiveSpec ==
    /\ Init
    /\ [][NextPair]_vars
    /\ WF_vars(WriteGameId)

\* ------------------------------------------------------------------------
\* class Db driven method by method, in any order and with any argument
\* ------------------------------------------------------------------------
DbAddPlayers(pair, round_nb) ==
    /\ pc = "idle"
    /\ Len(rounds) < MaxLedgerRows
    /\ rounds' = add_players(rounds, pair, round_nb)
    /\ ret' = Ret("add_players", round_nb, "none")
    /\ UNCHANGED <<games, pc, cur, orphans>>

DbAddLichessGameId(row_id, game_id) ==
    /\ pc = "idle"
    /\ rounds' = add_lichess_game_id(rounds, row_id, game_id)
    /\ ret' = Ret("add_lichess_game_id", 0, "none")
    /\ UNCHANGED <<games, pc, cur, orphans>>

DbAddGameResult(row_id, result) ==
    /\ pc = "idle"
    /\ rounds' = add_game_result(rounds, row_id, result)
    /\ ret' = Ret("add_game_result", 0, "none")
    /\ UNCHANGED <<games, pc, cur, orphans>>

NextLedger ==
    \/ \E round_nb \in Rounds : DbAddPlayers(Pair("alice", "bob"), round_nb)
    \/ \E row_id \in 1 .. MaxLedgerRows, game_id \in GameIds :
          DbAddLichessGameId(row_id, game_id)
    \/ \E row_id \in 1 .. MaxLedgerRows, result \in Results :
          DbAddGameResult(row_id, result)

SpecLedger == Init /\ [][NextLedger]_vars

\* ------------------------------------------------------------------------
\* The ingestion of round sheets, whatever PLAYER_REGEX finds in them
\* ------------------------------------------------------------------------
NextIngest ==
    \/ \E round_nb \in Rounds, sheet \in SelfSheets : Fetch(round_nb, sheet)
    \/ \E round_nb \in Rounds : Broadcast(round_nb)

SpecIngest == Init /\ [][NextIngest]_vars

\* ------------------------------------------------------------------------
\* Properties
\* ------------------------------------------------------------------------
Returned(op) == pc = "idle" /\ ret.op = op

GamesOf(row_id) == { g \in DOMAIN games : games[g].row_id = row_id }

AllPaired(round_nb) ==
    /\ get_unpaired_players(rounds, round_nb) = << >>
    /\ \A i \in DOMAIN rounds :
          rounds[i].round_nb = round_nb => rounds[i].lichess_game_id # NULL

\* C1: once the lichess_game_id of a row is not NULL, no call of
\* Db.add_lichess_game_id, whatever its argument, changes or clears it.
C1_SessionIdImmutable ==
    [][\A i \in DOMAIN rounds :
          rounds[i].lichess_game_id # NULL
            => rounds'[i].lichess_game_id = rounds[i].lichess_game_id]_vars

\* C2: as long as no run of pair_all_players was killed between the remote
\* creation of a game and the UPDATE of its id, the remote service has
\* created at most one game for each row.
C2_NoDoubleCreation ==
    orphans = {} => \A i \in DOMAIN rounds : Cardinality(GamesOf(i)) <= 1

\* a run of pair_all_players returned on a round part of which was paired by
\* an earlier run, and no row has more than its one game
C2_Witness ==
    /\ Returned("pair")
    /\ ret.err = "none"
    /\ orphans = {}
    /\ ret.snap # {}
    /\ \E i \in DOMAIN rounds : /\ rounds[i].round_nb = ret.round_nb
                                 /\ i \notin ret.snap
                                 /\ Cardinality(GamesOf(i)) = 1

\* C3: when create_game raises for one row, pair_all_players has still
\* called create_game for every other row it read; the rows whose call
\* succeeded have an id, the row whose call raised has none.
C3_FailureIsolated ==
    (Returned("pair") /\ ret.err = "KeyError")
      => /\ ret.tried = ret.snap
         /\ \A i \in ret.snap \ {ret.failed} : rounds[i].lichess_game_id # NULL
         /\ rounds[ret.failed].lichess_game_id = NULL

\* C4: after check_all_results, a row of the round that had a game and no
\* result has the result of its game when the remote reply gives the game a
\* conclusive status, and still no result otherwise.
C4_ConclusiveWritten ==
    Returned("check_all_results")
      => \A i \in DOMAIN ret.before :
            ( /\ ret.before[i].round_nb = ret.round_nb
              /\ ret.before[i].lichess_game_id # NULL
              /\ ret.before[i].result = NULL )
              => LET said == { k \in DOMAIN ret.val :
                                 /\ ret.val[k].id = ret.before[i].lichess_game_id
                                 /\ Conclusive(ret.val[k].status) }
                 IN  IF said = {}
                     THEN rounds[i].result = NULL
                     ELSE \E k \in said :
                            rounds[i].result = ResultOf(ret.val[k].status)

\* C5: once the result of a row is not NULL, no call of Db.add_game_result,
\* whatever its argument, changes or clears it.
C5_ResultSetOnce ==
    [][\A i \in DOMAIN rounds :
          rounds[i].result # NULL => rounds'[i].result = rounds[i].result]_vars

\* C6: a check_all_results that follows a check_all_results of the same round
\* with the same remote reply makes no UPDATE and leaves the table as the
\* first one left it.
C6_CheckIdempotent ==
    (Returned("check_all_results") /\ ret.again)
      => (ret.writes = 0 /\ rounds = ret.before)

\* the second of two checks of a round whose reply gives a conclusive status
\* to a game of the round
C6_Witness ==
    /\ Returned("check_all_results")
    /\ ret.again
    /\ \E k \in DOMAIN ret.val :
          /\ Conclusive(ret.val[k].status)
          /\ ret.val[k].id \in Started(rounds, ret.round_nb)

\* the command `pair` is run on the round again and again
Reinvoked(round_nb) == []<><<PairStart(round_nb)>>_vars

\* a remote service that accepts each pair in the end: as long as runs of the
\* round ask for a game, a request of the round is answered 200 again and again
Accepting(round_nb) ==
    []<>(pc = "create" /\ cur.round_nb = round_nb)
      => []<><<CreateGame(<<200>>) /\ cur.round_nb = round_nb>>_vars

\* from some point on no run is killed and no sheet is fetched
Undisturbed == <>[][~Kill /\ Len(rounds') = Len(rounds)]_vars

C8_RoundIsolation ==
    \A round_nb \in Rounds :
        /\ \A k \in DOMAIN get_unpaired_players(rounds, round_nb) :
              rounds[get_unpaired_players(rounds, round_nb)[k][1]].round_nb = round_nb
        /\ \A g \in DOMAIN get_unfinished_games(rounds, round_nb).val :
              rounds[get_unfinished_games(rounds, round_nb).val[g]].round_nb = round_nb

\* two unpaired rows with the same players, one in each round
C8_Witness ==
    \E i, j \in DOMAIN rounds :
        /\ rounds[i].round_nb = 1 /\ rounds[j].round_nb = 2
        /\ rounds[i].white_player = rounds[j].white_player
        /\ rounds[i].black_player = rounds[j].black_player
        /\ rounds[i].lichess_game_id = NULL /\ rounds[j].lichess_game_id = NULL
        /\ RowsOf(get_unpaired_players(rounds, 2)) = {j}

\* C9: get_unfinished_games of a round maps lichess_game_id to rowId for
\* exactly the rows of the round with an id and no result.
C9_UnfinishedExact ==
    \A round_nb \in Rounds :
        LET q == get_unfinished_games(rounds, round_nb)
        IN  \A i \in DOMAIN rounds :
              ( /\ rounds[i].round_nb = round_nb
                /\ rounds[i].lichess_game_id # NULL
                /\ rounds[i].result = NULL )
              <=> ( /\ rounds[i].lichess_game_id \in DOMAIN q.val
                    /\ q.val[rounds[i].lichess_game_id] = i )

\* C10: get_game_ids of a round returns the ids of the round joined by a
\* space, every id that is not NULL once and nothing else.
C10_ExportAllIds ==
    Returned("broadcast")
      => /\ ret.err = "none"
         /\ Len(ret.val) = Cardinality(Started(rounds, ret.round_nb))
         /\ { ret.val[k] : k \in DOMAIN ret.val } = Started(rounds, ret.round_nb)

\* the rows of the round that have a game and no result
Unresolved(tbl, round_nb) ==
    { i \in DOMAIN tbl : /\ tbl[i].round_nb = round_nb
                         /\ tbl[i].lichess_game_id # NULL
                         /\ tbl[i].result = NULL }

\* C11: check_all_results sends no request when the round has no game
\* without a result, and one lookup request when it has some.
C11_OneLookup ==
    Returned("check_all_results")
      => ret.requests = (IF Unresolved(ret.before, ret.round_nb) = {} THEN 0 ELSE 1)

Transient(status_code) == status_code = 429 \/ status_code \in 500 .. 599

\* C12: a create_game (of pair_all_players or of the command `test`) whose
\* request is answered with 429 or 5xx sends the request again, up to the
\* ceiling of the retries, and fails only when they are exhausted; answered
\* with another status it sends the request once.
C12_BoundedRetry ==
    ((Returned("pair") \/ Returned("test")) /\ ret.err \notin {"none", "killed"})
      => IF Transient(ret.status)
         THEN ret.requests = total + 1 /\ ret.err = "RetryError"
         ELSE ret.requests = 1

\* C13: the table never holds two rows with the same round, white player
\* and black player.
C13_NoDuplicateTriple ==
    \A i, j \in DOMAIN rounds :
        ( /\ rounds[i].round_nb = rounds[j].round_nb
          /\ rounds[i].white_player = rounds[j].white_player
          /\ rounds[i].black_player = rounds[j].black_player ) => i = j

\* C14: a row whose game was created and whose id was lost to a kill is
\* still unpaired when the killed run is over, and it gets an id only from a
\* second game the remote service creates for it.
C14_CrashDuplicates ==
    \A g \in orphans :
        LET i == games[g].row_id
        IN  /\ (Returned("pair") /\ ret.err = "killed" /\ ret.failed = i)
                  => i \in RowsOf(get_unpaired_players(rounds, rounds[i].round_nb))
            /\ rounds[i].lichess_game_id # NULL
                  => /\ Cardinality(GamesOf(i)) >= 2
                     /\ rounds[i].lichess_game_id # g

\* a row that lost a game to a kill was paired by a later run, with a second
\* game
C14_Witness ==
    \E g \in orphans :
        /\ rounds[games[g].row_id].lichess_game_id # NULL
        /\ Cardinality(GamesOf(games[g].row_id)) = 2
        /\ Returned("pair")

\* C15: when create_game raises, the row it raised for has neither id nor
\* result, every row the run wrote an id for before still has that id, and
\* every other row is as it was when the run started.
C15_PartialProgressKept ==
    (Returned("pair") /\ ret.err = "KeyError")
      => /\ rounds[ret.failed].lichess_game_id = NULL
         /\ rounds[ret.failed].result = NULL
         /\ \A i \in ret.tried \ {ret.failed} :
               /\ rounds[i].lichess_game_id # NULL
               /\ rounds[i].lichess_game_id \in GamesOf(i)
         /\ \A i \in DOMAIN rounds \ ret.tried : rounds[i] = ret.before[i]

\* a run wrote the id of one row and then failed on the next one
C15_Witness ==
    /\ Returned("pair")
    /\ ret.err = "KeyError"
    /\ Cardinality(ret.tried) >= 2
    /\ \E i \in ret.tried \ {ret.failed} : ret.before[i].lichess_game_id = NULL

\* C16: a run of pair_all_players calls create_game for a row it has not
\* called it for yet, which was in what it read and had no id when it
\* started, and has none now.
C16_OncePerRow ==
    pc = "create"
      => LET row_id == Head(cur.todo)[1]
         IN  /\ row_id \notin cur.tried
             /\ row_id \in RowsOf(cur.snap)
             /\ cur.before[row_id].lichess_game_id = NULL
             /\ rounds[row_id].lichess_game_id = NULL
             /\ cur.tried \subseteq RowsOf(cur.snap)

\* the run has called create_game for its first row, written the id, and is
\* about to call it for its second row
C16_Witness ==
    /\ pc = "create"
    /\ cur.tried # {}
    /\ \E i \in cur.tried : /\ cur.before[i].lichess_game_id = NULL
                            /\ rounds[i].lichess_game_id # NULL

\* C17: no two rows hold the same lichess_game_id.
C17_UniqueGameIds ==
    \A i, j \in DOMAIN rounds :
        ( /\ rounds[i].lichess_game_id # NULL
          /\ rounds[i].lichess_game_id = rounds[j].lichess_game_id ) => i = j

\* rows of both rounds have an id
C17_Witness ==
    \E i, j \in DOMAIN rounds :
        /\ rounds[i].round_nb # rounds[j].round_nb
        /\ rounds[i].lichess_game_id # NULL
        /\ rounds[j].lichess_game_id # NULL

\* C18: every row has two different players.
C18_DistinctPlayers ==
    \A i \in DOMAIN rounds : rounds[i].white_player # rounds[i].black_player

\* pair_all_players changed nothing of the table it started with but the
\* lichess_game_id of rows of its round that had none
FrameOfPair(started, round_nb) ==
    /\ Len(rounds) = Len(started)
    /\ \A i \in DOMAIN started :
          IF started[i].round_nb = round_nb /\ started[i].lichess_game_id = NULL
          THEN rounds[i] = [started[i] EXCEPT
                               !.lichess_game_id = rounds[i].lichess_game_id]
          ELSE rounds[i] = started[i]

\* C19: while pair_all_players runs and when it has returned, the table
\* differs from the table it started with only in the lichess_game_id of
\* rows of its round that were unpaired.
C19_PairFrame ==
    /\ pc \in {"create", "write"} => FrameOfPair(cur.before, cur.round_nb)
    /\ Returned("pair") => FrameOfPair(ret.before, ret.round_nb)

\* a run on one round has written ids, and the table has a row of the other
\* round
C19_Witness ==
    /\ Returned("pair")
    /\ ret.writes >= 1
    /\ \E i \in DOMAIN rounds : rounds[i].round_nb # ret.round_nb
    /\ rounds # ret.before

\* C20: a row with a result has an id, and no step takes the id or the
\* result of a row away: a row goes from unpaired to paired to resolved.
C20_LifecycleOrder ==
    /\ [](\A i \in DOMAIN rounds :
             rounds[i].result # NULL => rounds[i].lichess_game_id # NULL)
    /\ [][\A i \in DOMAIN rounds :
             /\ rounds[i].lichess_game_id # NULL => rounds'[i].lichess_game_id # NULL
             /\ rounds[i].result # NULL => rounds'[i].result # NULL]_vars

\* check_all_results has run on a round with a paired and an unpaired row
C20_Witness ==
    /\ Returned("check_all_results")
    /\ \E i, j \in DOMAIN rounds :
          /\ rounds[i].round_nb = ret.round_nb /\ rounds[j].round_nb = ret.round_nb
          /\ rounds[i].lichess_game_id # NULL /\ rounds[i].result = NULL
          /\ rounds[j].lichess_game_id = NULL /\ rounds[j].result = NULL

====
